---- MODULE Spec2Model ----
(***************************************************************************)
(* A model of src/src/recipe.rs: the recipe data model, is_automatic,      *)
(* sorted_ingredients, collect_ingredient_ids, collect_unknown_recipe_ids  *)
(* and mark_recursive_recipes.  Every recursive function is run step by    *)
(* step on an explicit call stack (frames): one frame per activation, the  *)
(* innermost activation first.                                             *)
(*                                                                         *)
(* The fields output_item_count and disciplines of Recipe are read by none *)
(* of these functions and are left out of the recipe records.              *)
(***************************************************************************)
EXTENDS Naturals, Sequences, FiniteSets

VARIABLES
    recipes_map,        \* HashMap<u32, Recipe>: a function from its keys to recipes
    self,               \* the recipe a method is called on (&self)
    pc,                 \* where the caller of the operation is
    frames,             \* the call stack of the running recursive function
    sorted,             \* the Vec returned by sorted_ingredients
    ids,                \* collect_ingredient_ids: the accumulator ids
    known_recipes,      \* collect_unknown_recipe_ids: Option<HashSet<u32>>
    unknown_recipes,    \* collect_unknown_recipe_ids: the result set
    ingredients_stack,  \* mark_recursive_recipes_internal: the path stack
    set,                \* mark_recursive_recipes: the result set
    todo,               \* mark_recursive_recipes: entries the outer loop has not visited
    prev                \* the set returned by the previous call of mark_recursive_recipes

vars == <<recipes_map, self, pc, frames, sorted, ids, known_recipes,
          unknown_recipes, ingredients_stack, set, todo, prev>>

----------------------------------------------------------------------------
(* Bounds of the model. *)

MaxItem == 3        \* item identifiers are 1..MaxItem
MaxIngr == 2        \* a recipe that is walked has at most MaxIngr ingredients
MaxRecipes == 3     \* a database has at most MaxRecipes entries
MaxWalked == 2      \* but at most MaxWalked when collect_unknown_recipe_ids walks it
MaxCount == 2       \* ingredient counts of the sorted recipe are 1..MaxCount
MaxSortLen == 3     \* the sorted recipe has at most MaxSortLen ingredients
MaxRecipeId == 2    \* recipe identifiers are 1..MaxRecipeId

Items == 1..MaxItem
RecipeIds == 1..MaxRecipeId

\* Option<T>: None is the empty tuple, Some(x) the one-element tuple.
None == <<>>
Some(x) == <<x>>

RecipeSource == {"Automatic", "Discoverable", "Purchasable", "Achievement"}

SeqsUpTo(S, n) == UNION {[1..k -> S] : k \in 0..n}

\* api::RecipeIngredient
RecipeIngredient(counts) == [item_id : Items, count : counts]

\* Recipe, with its fields drawn from the given sets.
Recipe(idset, outs, ingrs, sources) ==
    [id : idset, output_item_id : outs, ingredients : ingrs, source : sources]

\* recipes_map is a database of at most n entries: every key maps to a recipe
\* whose output_item_id is the key.
IsDatabase(n, idset, ingrs, sources) ==
    \E K \in {K \in SUBSET Items : Cardinality(K) <= n} :
        \E a \in [K -> [id : idset, ingredients : ingrs, source : sources]] :
            recipes_map = [k \in K |-> [id |-> a[k].id, output_item_id |-> k,
                                        ingredients |-> a[k].ingredients,
                                        source |-> a[k].source]]

\* The elements of a Vec.
Range(s) == {s[i] : i \in 1..Len(s)}
NoDuplicates(s) == \A i, j \in 1..Len(s) : s[i] = s[j] => i = j
Last(s) == s[Len(s)]
\* What Vec::pop leaves.
Front(s) == SubSeq(s, 1, Len(s) - 1)

\* The values of the variables an operation does not use.
Idle ==
    /\ sorted = <<>>
    /\ ids = <<>>
    /\ known_recipes = None
    /\ unknown_recipes = {}
    /\ ingredients_stack = <<>>
    /\ set = {}
    /\ todo = {}
    /\ prev = None

----------------------------------------------------------------------------
(* Recipe::sorted_ingredients *)

\* u32::cmp
cmp(x, y) == IF x < y THEN "Less" ELSE IF x = y THEN "Equal" ELSE "Greater"

\* The tie-break of the comparator the wrong way round: item_id ascending.
compare_ascending_ids(a, b) ==
    LET v == cmp(b.count, a.count)
    IN  IF v = "Equal" THEN cmp(a.item_id, b.item_id) ELSE v

\* The closure given to sort_unstable_by.
compare(a, b) ==
    LET v == cmp(b.count, a.count)
    IN  IF v = "Equal" THEN cmp(b.item_id, a.item_id) ELSE v

\* slice::sort_unstable_by: the elements of s in an order in which no element
\* compares Greater than a later one.  Computed by insertion.
RECURSIVE insert_by(_, _)
insert_by(x, s) ==
    IF s = <<>> THEN <<x>>
    ELSE IF compare(x, Head(s)) = "Greater"
         THEN <<Head(s)>> \o insert_by(x, Tail(s))
         ELSE <<x>> \o s

RECURSIVE sort_unstable_by(_)
sort_unstable_by(s) ==
    IF s = <<>> THEN <<>> ELSE insert_by(Head(s), sort_unstable_by(Tail(s)))

InitSort ==
    /\ recipes_map = <<>>
    /\ self \in Recipe({None}, {1},
                       SeqsUpTo(RecipeIngredient(1..MaxCount), MaxSortLen),
                       {"Automatic"})
    /\ pc = "start"
    /\ frames = <<>>
    /\ Idle

sorted_ingredients ==
    /\ pc = "start"
    /\ sorted' = sort_unstable_by(self.ingredients)
    /\ pc' = "done"
    /\ UNCHANGED <<recipes_map, self, frames, ids, known_recipes, unknown_recipes,
                   ingredients_stack, set, todo, prev>>

NextSort == sorted_ingredients

SpecSort == InitSort /\ [][NextSort]_vars /\ WF_vars(NextSort)

\* The number of positions of s that hold x.
Occurrences(s, x) == Cardinality({i \in 1..Len(s) : s[i] = x})

\* C8: sorted_ingredients returns exactly the recipe's ingredients (same
\* multiset, same length), every adjacent pair (a, b) of the result has
\* a.count > b.count, or a.count = b.count and a.item_id >= b.item_id, and the
\* recipe's stored ingredients are never changed.
C8_SortedIngredients ==
    /\ [](pc = "done" =>
            /\ Len(sorted) = Len(self.ingredients)
            /\ \A x \in Range(sorted) \cup Range(self.ingredients) :
                   Occurrences(sorted, x) = Occurrences(self.ingredients, x)
            /\ \A i \in 1..(Len(sorted) - 1) :
                   \/ sorted[i].count > sorted[i + 1].count
                   \/ /\ sorted[i].count = sorted[i + 1].count
                      /\ sorted[i].item_id >= sorted[i + 1].item_id)
    /\ [][self' = self]_vars

\* Three ingredients, stored out of order, with a tie on count, have been sorted.
C8_Witness ==
    /\ pc = "done"
    /\ Len(sorted) = 3
    /\ sorted # self.ingredients
    /\ \E i \in 1..2 : /\ sorted[i].count = sorted[i + 1].count
                       /\ sorted[i].item_id > sorted[i + 1].item_id
    /\ \E i \in 1..2 : sorted[i].count > sorted[i + 1].count

----------------------------------------------------------------------------
(* The production graph of a database. *)

\* The item identifiers of a recipe's ingredients.
IngredientIds(recipe) == {recipe.ingredients[i].item_id : i \in 1..Len(recipe.ingredients)}

\* The least set that contains S and the ingredients of every recipe of m that
\* produces one of its elements.
RECURSIVE Closure(_, _)
Closure(S, m) ==
    LET T == S \cup UNION {IngredientIds(m[k]) : k \in S \cap DOMAIN m}
    IN  IF T = S THEN S ELSE Closure(T, m)

\* The items of recipe's production chain: its ingredients, and the ingredients
\* of every recipe of m that produces an item of the chain.
Chain(recipe, m) == Closure(IngredientIds(recipe), m)

\* A cap on the depth of the two recursions that have a cycle guard.  Each of
\* their calls follows the push of an item that was not recorded, so they hold
\* at most MaxItem + 1 activations and the cap never stops them; it stops a
\* recursion whose guard does not work.
DepthCap == MaxItem + 2

\* The innermost activation.
Top == Head(frames)

\* The running activation returns: its frame is dropped and its caller, if there
\* is one, goes on with its next ingredient.
Return ==
    IF Len(frames) = 1
    THEN <<>>
    ELSE <<[frames[2] EXCEPT !.i = @ + 1]>> \o SubSeq(frames, 3, Len(frames))

\* The running activation goes on with its next ingredient.
Advance == <<[Top EXCEPT !.i = @ + 1]>> \o Tail(frames)

\* The recipes whose fields other than ingredients and output_item_id are fixed.
PlainRecipes(outs) ==
    Recipe({None}, outs, SeqsUpTo(RecipeIngredient({1}), MaxIngr), {"Automatic"})

IsPlainDatabase ==
    IsDatabase(MaxRecipes, {None}, SeqsUpTo(RecipeIngredient({1}), MaxIngr), {"Automatic"})

----------------------------------------------------------------------------
(* Recipe::collect_ingredient_ids.  A frame is [recipe, i]: the activation on *)
(* recipe is about to look at its i-th ingredient.                           *)

\* A membership test that looks at the last element only.
contains_last(v, x) == v # <<>> /\ Last(v) = x

\* The test never finds anything.
contains_nothing(v, x) == FALSE

\* Vec::contains
contains(v, x) == x \in Range(v)

\* ids.contains(&ingredient.item_id)
ids_contains(v, x) == contains(v, x)

InitIngr ==
    /\ IsPlainDatabase
    /\ self \in PlainRecipes(Items)
    /\ pc = "start"
    /\ frames = <<>>
    /\ Idle

\* recipe.collect_ingredient_ids(recipes_map, &mut ids) with ids empty
call_collect_ingredient_ids ==
    /\ pc = "start"
    /\ pc' = "running"
    /\ frames' = <<[recipe |-> self, i |-> 1]>>
    /\ UNCHANGED <<recipes_map, self, sorted, ids, known_recipes, unknown_recipes,
                   ingredients_stack, set, todo, prev>>

\* if ids.contains(&ingredient.item_id) { continue; }
ingredient_seen ==
    /\ pc = "running"
    /\ Top.i <= Len(Top.recipe.ingredients)
    /\ ids_contains(ids, Top.recipe.ingredients[Top.i].item_id)
    /\ frames' = Advance
    /\ UNCHANGED <<recipes_map, self, pc, sorted, ids, known_recipes, unknown_recipes,
                   ingredients_stack, set, todo, prev>>

\* ids.push(ingredient.item_id); recipes_map.get(..) is None
ingredient_leaf ==
    /\ pc = "running"
    /\ Top.i <= Len(Top.recipe.ingredients)
    /\ LET item_id == Top.recipe.ingredients[Top.i].item_id
       IN  /\ ~ids_contains(ids, item_id)
           /\ item_id \notin DOMAIN recipes_map
           /\ ids' = Append(ids, item_id)
    /\ frames' = Advance
    /\ UNCHANGED <<recipes_map, self, pc, sorted, known_recipes, unknown_recipes,
                   ingredients_stack, set, todo, prev>>

\* ids.push(ingredient.item_id); recipes_map.get(..) is Some(recipe): recurse
ingredient_recurse ==
    /\ pc = "running"
    /\ Len(frames) < DepthCap
    /\ Top.i <= Len(Top.recipe.ingredients)
    /\ LET item_id == Top.recipe.ingredients[Top.i].item_id
       IN  /\ ~ids_contains(ids, item_id)
           /\ item_id \in DOMAIN recipes_map
           /\ ids' = Append(ids, item_id)
           /\ frames' = <<[recipe |-> recipes_map[item_id], i |-> 1]>> \o frames
    /\ UNCHANGED <<recipes_map, self, pc, sorted, known_recipes, unknown_recipes,
                   ingredients_stack, set, todo, prev>>

\* the for loop is over: the activation returns
collect_ingredient_ids_return ==
    /\ pc = "running"
    /\ Top.i > Len(Top.recipe.ingredients)
    /\ frames' = Return
    /\ pc' = IF Len(frames) = 1 THEN "done" ELSE "running"
    /\ UNCHANGED <<recipes_map, self, sorted, ids, known_recipes, unknown_recipes,
                   ingredients_stack, set, todo, prev>>

NextIngr ==
    \/ call_collect_ingredient_ids
    \/ ingredient_seen
    \/ ingredient_leaf
    \/ ingredient_recurse
    \/ collect_ingredient_ids_return

\* The program is sequential: a step that can be taken is taken.
SpecIngr == InitIngr /\ [][NextIngr]_vars /\ WF_vars(NextIngr)

\* C3: called with an empty accumulator, collect_ingredient_ids leaves in it a
\* sequence without duplicates whose elements are exactly the items reachable
\* from the root: its ingredients and, recursively, the ingredients of every
\* database recipe that produces a reached item; an item without a database
\* entry is recorded and is a leaf.
C3_CollectsReachableOnce ==
    /\ NoDuplicates(ids)
    /\ pc = "done" => Range(ids) = Chain(self, recipes_map)

\* The walk went below the root's own ingredients and recorded a leaf, and it
\* met an item it had recorded before.
C3_Witness ==
    /\ pc = "done"
    /\ Len(ids) = 3
    /\ Range(ids) \ IngredientIds(self) # {}
    /\ Range(ids) \ DOMAIN recipes_map # {}
    /\ Len(self.ingredients) = 2
    /\ \E k \in DOMAIN recipes_map : Len(recipes_map[k].ingredients) = 2

\* C4: collect_ingredient_ids terminates for every root and every database,
\* one with a cycle in its production graph and a recipe that lists itself
\* included.
C4_CollectTerminates == <>(pc = "done")

\* A walk that returned although A requires B and B requires A, both reached,
\* and the root lists its own output.
C4_Witness ==
    /\ pc = "done"
    /\ \E a, b \in DOMAIN recipes_map :
          /\ a # b
          /\ a \in Range(ids)
          /\ b \in IngredientIds(recipes_map[a])
          /\ a \in IngredientIds(recipes_map[b])
    /\ self.output_item_id \in IngredientIds(self)

----------------------------------------------------------------------------
(* Recipe::is_automatic and Recipe::collect_unknown_recipe_ids.  A frame is  *)
(* [recipe, i]: with i = 0 the activation on recipe is at its start, with   *)
(* i > 0 it is about to look at its i-th ingredient.                        *)

\* Only Automatic counts as automatic.
is_automatic_strict(recipe) == recipe.source = "Automatic"

is_automatic(recipe) ==
    CASE recipe.source \in {"Purchasable", "Achievement"} -> FALSE
      [] recipe.source \in {"Automatic", "Discoverable"} -> TRUE

\* An absent known-recipe set taken as "every recipe is known".
is_unknown_none_knows_all(known, id) == IF known = None THEN FALSE ELSE id \notin known[1]

\* known_recipes.as_ref().filter(|recipes| recipes.contains(&id)).is_none()
is_unknown(known, id) == IF known = None THEN TRUE ELSE id \notin known[1]

\* The conditions under which the activation inserts its recipe's identifier.
inserts_id(recipe, known, unknown) ==
    /\ recipe.id # None
    /\ recipe.id[1] \notin unknown
    /\ ~is_automatic(recipe)
    /\ is_unknown(known, recipe.id[1])

\* The stack of the process has room for StackLimit activations.  The root is a
\* recipe of the database, so a call chain of more than MaxWalked activations
\* holds some recipe twice.
StackLimit == MaxWalked + 1

RecipeIdOpts == {None} \cup {Some(n) : n \in RecipeIds}

KnownRecipes == {None, Some({}), Some({1})}

InitUnknown ==
    /\ IsDatabase(MaxWalked, RecipeIdOpts, SeqsUpTo(RecipeIngredient({1}), MaxIngr), RecipeSource)
    /\ \E k \in DOMAIN recipes_map : self = recipes_map[k]
    /\ pc = "start"
    /\ frames = <<>>
    /\ Idle

\* recipe.collect_unknown_recipe_ids(recipes_map, &known_recipes, &mut unknown_recipes)
\* with unknown_recipes empty
call_collect_unknown_recipe_ids ==
    /\ pc = "start"
    /\ pc' = "running"
    /\ known_recipes' \in KnownRecipes
    /\ frames' = <<[recipe |-> self, i |-> 0]>>
    /\ UNCHANGED <<recipes_map, self, sorted, ids, unknown_recipes,
                   ingredients_stack, set, todo, prev>>

\* lines 152-163, the identifier is inserted
recipe_inserted ==
    /\ pc = "running"
    /\ Top.i = 0
    /\ inserts_id(Top.recipe, known_recipes, unknown_recipes)
    /\ unknown_recipes' = unknown_recipes \cup {Top.recipe.id[1]}
    /\ frames' = Advance
    /\ UNCHANGED <<recipes_map, self, pc, sorted, ids, known_recipes,
                   ingredients_stack, set, todo, prev>>

\* lines 152-163, nothing is inserted
recipe_passed ==
    /\ pc = "running"
    /\ Top.i = 0
    /\ ~inserts_id(Top.recipe, known_recipes, unknown_recipes)
    /\ frames' = Advance
    /\ UNCHANGED <<recipes_map, self, pc, sorted, ids, known_recipes, unknown_recipes,
                   ingredients_stack, set, todo, prev>>

\* recipes_map.get(&ingredient.item_id) is None
unknown_ingredient_leaf ==
    /\ pc = "running"
    /\ Top.i > 0
    /\ Top.i <= Len(Top.recipe.ingredients)
    /\ Top.recipe.ingredients[Top.i].item_id \notin DOMAIN recipes_map
    /\ frames' = Advance
    /\ UNCHANGED <<recipes_map, self, pc, sorted, ids, known_recipes, unknown_recipes,
                   ingredients_stack, set, todo, prev>>

\* recipes_map.get(&ingredient.item_id) is Some(recipe): recurse
unknown_ingredient_recurse ==
    /\ pc = "running"
    /\ Top.i > 0
    /\ Top.i <= Len(Top.recipe.ingredients)
    /\ Len(frames) < StackLimit
    /\ LET item_id == Top.recipe.ingredients[Top.i].item_id
       IN  /\ item_id \in DOMAIN recipes_map
           /\ frames' = <<[recipe |-> recipes_map[item_id], i |-> 0]>> \o frames
    /\ UNCHANGED <<recipes_map, self, pc, sorted, ids, known_recipes, unknown_recipes,
                   ingredients_stack, set, todo, prev>>

\* the same, with no room left on the stack of the process: the process aborts
unknown_stack_overflow ==
    /\ pc = "running"
    /\ Top.i > 0
    /\ Top.i <= Len(Top.recipe.ingredients)
    /\ Len(frames) >= StackLimit
    /\ Top.recipe.ingredients[Top.i].item_id \in DOMAIN recipes_map
    /\ pc' = "overflow"
    /\ UNCHANGED <<recipes_map, self, frames, sorted, ids, known_recipes, unknown_recipes,
                   ingredients_stack, set, todo, prev>>

\* the for loop is over: the activation returns
collect_unknown_recipe_ids_return ==
    /\ pc = "running"
    /\ Top.i > Len(Top.recipe.ingredients)
    /\ frames' = Return
    /\ pc' = IF Len(frames) = 1 THEN "done" ELSE "running"
    /\ UNCHANGED <<recipes_map, self, sorted, ids, known_recipes, unknown_recipes,
                   ingredients_stack, set, todo, prev>>

NextUnknown ==
    \/ call_collect_unknown_recipe_ids
    \/ recipe_inserted
    \/ recipe_passed
    \/ unknown_ingredient_leaf
    \/ unknown_ingredient_recurse
    \/ unknown_stack_overflow
    \/ collect_unknown_recipe_ids_return

SpecUnknown == InitUnknown /\ [][NextUnknown]_vars

\* Whether the walk ends depends on ingredients alone: for the claim about
\* termination the identifiers and sources are drawn from smaller sets.
InitUnknownGraph ==
    /\ IsDatabase(MaxWalked, {None, Some(1)}, SeqsUpTo(RecipeIngredient({1}), MaxIngr),
                  {"Automatic", "Purchasable"})
    /\ \E k \in DOMAIN recipes_map : self = recipes_map[k]
    /\ pc = "start"
    /\ frames = <<>>
    /\ Idle

\* The program is sequential: a step that can be taken is taken.
FairSpecUnknown == InitUnknownGraph /\ [][NextUnknown]_vars /\ WF_vars(NextUnknown)

\* The recipes of self's production chain: self and every recipe of the
\* database that produces an item of the chain.
ChainRecipes ==
    {self} \cup {recipes_map[k] : k \in Chain(self, recipes_map) \cap DOMAIN recipes_map}

\* No recipe of self's production chain requires, directly or not, its own output.
AcyclicChain ==
    \A recipe \in ChainRecipes : recipe.output_item_id \notin Chain(recipe, recipes_map)

\* No two recipes of the database have the same identifier.
UniqueIds ==
    \A j, k \in DOMAIN recipes_map :
        (recipes_map[j].id # None /\ recipes_map[j].id = recipes_map[k].id) => j = k

\* C5: collect_unknown_recipe_ids returns for every root, every known-recipe
\* set and every database, one with a cycle in its production graph included.
C5_UnknownTerminates == <>(pc = "done")

\* The identifiers C6 names: those of the recipes of the chain that have one,
\* are Purchasable or Achievement, and are not in the known-recipe set.
Required ==
    {recipe.id[1] : recipe \in
        {r \in ChainRecipes :
            /\ r.id # None
            /\ r.source \in {"Purchasable", "Achievement"}
            /\ IF known_recipes = None THEN TRUE ELSE r.id[1] \notin known_recipes[1]}}

C7_NeverInsertsAutomatic ==
    /\ [][unknown_recipes' # unknown_recipes =>
            /\ Top.recipe.id # None
            /\ unknown_recipes' = unknown_recipes \cup {Top.recipe.id[1]}
            /\ Top.recipe.source \in {"Purchasable", "Achievement"}]_vars
    /\ [](UniqueIds =>
            \A k \in DOMAIN recipes_map :
                (/\ recipes_map[k].source \in {"Automatic", "Discoverable"}
                 /\ recipes_map[k].id # None) => recipes_map[k].id[1] \notin unknown_recipes)

\* A walk that visited a Discoverable recipe with an identifier nobody knows,
\* and an Automatic one, and inserted the identifier of a third recipe only.
C7_Witness ==
    /\ pc = "done"
    /\ known_recipes = Some({})
    /\ self.source = "Discoverable"
    /\ self.id = Some(1)
    /\ unknown_recipes = {2}

----------------------------------------------------------------------------
(* mark_recursive_recipes and mark_recursive_recipes_internal.  A frame is   *)
(* [item_id, search_output_item_id, i]: with i = 0 the activation is at its *)
(* start, with i > 0 it is about to look at the i-th ingredient of the      *)
(* recipe of item_id.  The function is called twice on the same database,   *)
(* and each call visits the entries of the HashMap in an order of its own.  *)

\* The comparison the wrong way round.
is_not_search_target(item_id, search_output_item_id) == item_id # search_output_item_id

\* ingredient.item_id == search_output_item_id
is_search_target(item_id, search_output_item_id) == item_id = search_output_item_id

\* ingredients_stack.contains(&ingredient.item_id)
stack_contains(stack, item_id) == contains(stack, item_id)

\* The ingredient the innermost activation is about to look at.
TopIngredient == recipes_map[Top.item_id].ingredients[Top.i].item_id

InMarkLoop ==
    /\ pc = "running"
    /\ Top.i > 0
    /\ Top.i <= Len(recipes_map[Top.item_id].ingredients)

\* The activation returns; its caller, if there is one, pops the stack and goes
\* on with its next ingredient, otherwise the outer loop goes on.
MarkReturn ==
    /\ frames' = Return
    /\ ingredients_stack' =
           IF Len(frames) = 1 THEN ingredients_stack ELSE Front(ingredients_stack)
    /\ pc' = IF Len(frames) = 1 THEN "scan" ELSE "running"

InitMark ==
    /\ IsPlainDatabase
    /\ self = [id |-> None, output_item_id |-> 1, ingredients |-> <<>>,
               source |-> "Automatic"]
    /\ pc = "start"
    /\ frames = <<>>
    /\ Idle

\* mark_recursive_recipes(recipes_map): let mut set = HashSet::new()
call_mark_recursive_recipes ==
    /\ pc \in {"start", "done"}
    /\ prev = None
    /\ prev' = IF pc = "done" THEN Some(set) ELSE None
    /\ set' = {}
    /\ todo' = DOMAIN recipes_map
    /\ pc' = "scan"
    /\ UNCHANGED <<recipes_map, self, frames, sorted, ids, known_recipes,
                   unknown_recipes, ingredients_stack>>

\* the outer loop takes the next entry, whichever the HashMap yields, and calls
\* mark_recursive_recipes_internal with a new, empty stack
scan_next ==
    /\ pc = "scan"
    /\ \E recipe_id \in todo :
          /\ todo' = todo \ {recipe_id}
          /\ frames' = <<[item_id |-> recipe_id,
                          search_output_item_id |-> recipes_map[recipe_id].output_item_id,
                          i |-> 0]>>
    /\ ingredients_stack' = <<>>
    /\ pc' = "running"
    /\ UNCHANGED <<recipes_map, self, sorted, ids, known_recipes, unknown_recipes,
                   set, prev>>

\* the outer loop is over: set is returned
scan_end ==
    /\ pc = "scan"
    /\ todo = {}
    /\ pc' = "done"
    /\ UNCHANGED <<recipes_map, self, frames, sorted, ids, known_recipes,
                   unknown_recipes, ingredients_stack, set, todo, prev>>

\* if set.contains(&item_id) { return; }
internal_marked ==
    /\ pc = "running"
    /\ Top.i = 0
    /\ Top.item_id \in set
    /\ MarkReturn
    /\ UNCHANGED <<recipes_map, self, sorted, ids, known_recipes, unknown_recipes,
                   set, todo, prev>>

\* recipes_map.get(&item_id) is None
internal_no_recipe ==
    /\ pc = "running"
    /\ Top.i = 0
    /\ Top.item_id \notin set
    /\ Top.item_id \notin DOMAIN recipes_map
    /\ MarkReturn
    /\ UNCHANGED <<recipes_map, self, sorted, ids, known_recipes, unknown_recipes,
                   set, todo, prev>>

\* recipes_map.get(&item_id) is Some(recipe): the for loop starts
internal_recipe ==
    /\ pc = "running"
    /\ Top.i = 0
    /\ Top.item_id \notin set
    /\ Top.item_id \in DOMAIN recipes_map
    /\ frames' = Advance
    /\ UNCHANGED <<recipes_map, self, pc, sorted, ids, known_recipes, unknown_recipes,
                   ingredients_stack, set, todo, prev>>

\* the ingredient is the search target: set.insert(recipe.output_item_id); return
internal_found ==
    /\ InMarkLoop
    /\ is_search_target(TopIngredient, Top.search_output_item_id)
    /\ set' = set \cup {recipes_map[Top.item_id].output_item_id}
    /\ MarkReturn
    /\ UNCHANGED <<recipes_map, self, sorted, ids, known_recipes, unknown_recipes,
                   todo, prev>>

\* if ingredients_stack.contains(&ingredient.item_id) { continue; }
internal_on_stack ==
    /\ InMarkLoop
    /\ ~is_search_target(TopIngredient, Top.search_output_item_id)
    /\ stack_contains(ingredients_stack, TopIngredient)
    /\ frames' = Advance
    /\ UNCHANGED <<recipes_map, self, pc, sorted, ids, known_recipes, unknown_recipes,
                   ingredients_stack, set, todo, prev>>

\* ingredients_stack.push(ingredient.item_id) and the recursive call
internal_recurse ==
    /\ InMarkLoop
    /\ Len(frames) < DepthCap
    /\ ~is_search_target(TopIngredient, Top.search_output_item_id)
    /\ ~stack_contains(ingredients_stack, TopIngredient)
    /\ ingredients_stack' = Append(ingredients_stack, TopIngredient)
    /\ frames' = <<[item_id |-> TopIngredient,
                    search_output_item_id |-> Top.search_output_item_id,
                    i |-> 0]>> \o frames
    /\ UNCHANGED <<recipes_map, self, pc, sorted, ids, known_recipes, unknown_recipes,
                   set, todo, prev>>

\* the for loop is over: the activation returns
internal_return ==
    /\ pc = "running"
    /\ Top.i > 0
    /\ Top.i > Len(recipes_map[Top.item_id].ingredients)
    /\ MarkReturn
    /\ UNCHANGED <<recipes_map, self, sorted, ids, known_recipes, unknown_recipes,
                   set, todo, prev>>

NextMark ==
    \/ call_mark_recursive_recipes
    \/ scan_next
    \/ scan_end
    \/ internal_marked
    \/ internal_no_recipe
    \/ internal_recipe
    \/ internal_found
    \/ internal_on_stack
    \/ internal_recurse
    \/ internal_return

\* The program is sequential: a step that can be taken is taken.
SpecMark == InitMark /\ [][NextMark]_vars /\ WF_vars(NextMark)

\* The items of the database whose production chain leads back to themselves.
Recursive == {k \in DOMAIN recipes_map : k \in Chain(recipes_map[k], recipes_map)}

\* Every item identifier of the database: its keys and all ingredients.
ItemIds == DOMAIN recipes_map \cup UNION {IngredientIds(recipes_map[k]) : k \in DOMAIN recipes_map}

\* C1: the set returned by mark_recursive_recipes contains every item of the
\* database whose production chain leads back to itself; where X requires Y
\* and Y requires X it contains both X and Y.
C1_MarksEveryRecursive == pc = "done" => Recursive \subseteq set

\* C2: at every point of the scan every identifier in the result set is a key
\* of the database whose production chain leads back to itself; for a database
\* without such a chain the returned set is empty.
C2_MarksOnlyRecursive ==
    /\ set \subseteq Recursive
    /\ prev # None => prev[1] \subseteq Recursive

\* A finished scan that flagged an item of a database in which another recipe,
\* although it requires a flagged item, is on no cycle.
C2_Witness ==
    /\ pc = "done"
    /\ set # {}
    /\ \E k \in DOMAIN recipes_map \ Recursive : IngredientIds(recipes_map[k]) \cap set # {}

\* C9: the set returned by mark_recursive_recipes does not depend on the order
\* in which the outer loop visits the entries: two calls on the same database
\* return the same set.
C9_OrderIndependent == (pc = "done" /\ prev # None) => set = prev[1]

\* The stack is the path of the search: the items of the activations below the
\* outermost one, in the order in which they were entered.
StackIsPath ==
    pc = "running" =>
        /\ Len(ingredients_stack) = Len(frames) - 1
        /\ \A j \in 1..Len(ingredients_stack) :
               ingredients_stack[j] = frames[Len(frames) - j].item_id

\* C10: mark_recursive_recipes terminates for every database, also when there
\* are cycles that do not pass through the search target: no item is on the
\* path stack twice, the search target is never on it, the stack is the same
\* after a recursive call as before it (it is always the path of the
\* activations), and so there are never more activations than item
\* identifiers in the database.
C10_MarkTerminates ==
    /\ [](/\ NoDuplicates(ingredients_stack)
          /\ pc = "running" => Top.search_output_item_id \notin Range(ingredients_stack)
          /\ StackIsPath
          /\ Len(frames) <= Cardinality(ItemIds))
    /\ <>(pc = "done" /\ prev # None)

\* The search met an ingredient that is on its path and is not its target: a
\* cycle that does not pass through the target.
C10_Witness ==
    /\ InMarkLoop
    /\ Len(ingredients_stack) = 2
    /\ TopIngredient # Top.search_output_item_id
    /\ TopIngredient \in Range(ingredients_stack)

====
